---- MODULE Spec2Model ----
(***************************************************************************)
(* Model of bingo's acyclic-graph program (AGraph.py) and of the VarOr     *)
(* variation (VarOr.py).                                                   *)
(*                                                                         *)
(* Python indices are zero-based; a command array of N rows is the TLA+    *)
(* sequence of length N whose element i+1 is row i.  Parameters stored in  *)
(* rows keep their zero-based Python values.                               *)
(***************************************************************************)
EXTENDS Integers, Sequences, FiniteSets, TLC

\* Longest command array explored.
MaxLen == 3
\* Largest number of values handed to set_local_optimization_params.
MaxConst == 2

\* Python's None, and the wrapper of a value that may be None: <<>> or <<v>>.
NoneVal == <<>>

-----------------------------------------------------------------------------
(* AGraph.py: the node maps.                                               *)

IS_ARITY_2_MAP_sin_binary == [n \in 0..12 |-> n \in {2, 3, 4, 5, 6, 10}]

IS_ARITY_2_MAP == [n \in 0..12 |-> n \in {2, 3, 4, 5, 10}]

IS_TERMINAL_MAP == [n \in 0..12 |-> n \in {0, 1}]

-----------------------------------------------------------------------------
(* Backend.get_utilized_commands: one backward pass over the stack.  The   *)
(* last row is utilized; a utilized operator row marks the rows its        *)
(* parameters name (one parameter for arity 1, two for arity 2).           *)

RECURSIVE UtilScan(_, _, _)
UtilScan(stack, util, i) ==
    IF i = 0 THEN util
    ELSE LET node == stack[i][1]
             param1 == stack[i][2]
             param2 == stack[i][3]
             u1 == IF util[i] /\ ~IS_TERMINAL_MAP[node]
                   THEN [util EXCEPT ![param1 + 1] = TRUE]
                   ELSE util
             u2 == IF util[i] /\ IS_ARITY_2_MAP[node]
                   THEN [u1 EXCEPT ![param2 + 1] = TRUE]
                   ELSE u1
         IN UtilScan(stack, u2, i - 1)

get_utilized_commands(stack) ==
    IF Len(stack) = 0 THEN <<>>
    ELSE UtilScan(stack, [i \in 1..Len(stack) |-> i = Len(stack)], Len(stack))

-----------------------------------------------------------------------------
(* AGraph.needs_local_optimization: the loop with its early return.        *)

RECURSIVE NeedsScan(_, _, _, _)
NeedsScan(array, util, consts, i) ==
    IF i > Len(array) THEN FALSE
    ELSE IF util[i] /\ array[i][1] = 1
            /\ (array[i][2] = -1 \/ array[i][2] >= Len(consts))
         THEN TRUE
         ELSE NeedsScan(array, util, consts, i + 1)

needs_local_optimization_strict(array, consts) ==
    \E i \in 1..Len(array) :
        /\ get_utilized_commands(array)[i]
        /\ array[i][1] = 1
        /\ (array[i][2] = -1 \/ array[i][2] > Len(consts))

needs_local_optimization(array, consts) ==
    NeedsScan(array, get_utilized_commands(array), consts, 1)

-----------------------------------------------------------------------------
(* AGraph.get_number_local_optimization_params: the renumbering loop.      *)
(* The result is the command array after the loop and the returned count.  *)

RECURSIVE RenumberScan(_, _, _, _)
RenumberScan(array, util, i, const_num) ==
    IF i > Len(array) THEN [array |-> array, const_num |-> const_num]
    ELSE IF util[i] /\ array[i][1] = 1
         THEN RenumberScan([array EXCEPT ![i] = <<1, const_num, const_num>>],
                           util, i + 1, const_num + 1)
         ELSE RenumberScan(array, util, i + 1, const_num)

\* Mutant: the liveness test is dropped, every constant-load is renumbered.
get_number_all_constants(array) ==
    RenumberScan(array, [i \in 1..Len(array) |-> TRUE], 1, 0)

RECURSIVE RenumberUnboundScan(_, _, _, _)
RenumberUnboundScan(array, util, i, const_num) ==
    IF i > Len(array) THEN [array |-> array, const_num |-> const_num]
    ELSE IF util[i] /\ array[i][1] = 1 /\ array[i][2] = -1
         THEN RenumberUnboundScan(
                  [array EXCEPT ![i] = <<1, const_num, const_num>>],
                  util, i + 1, const_num + 1)
         ELSE RenumberUnboundScan(array, util, i + 1, const_num)

\* Mutant: only the unbound (-1) constant-loads are counted and renumbered.
get_number_only_unbound(array) ==
    RenumberUnboundScan(array, get_utilized_commands(array), 1, 0)

get_number_local_optimization_params(array) ==
    RenumberScan(array, get_utilized_commands(array), 1, 0)

-----------------------------------------------------------------------------
(* AGraph.py: console and LaTeX rendering.  A format string is the         *)
(* sequence of its literal pieces, one "{}" standing between two           *)
(* neighbours ("{{" and "}}" already read as braces); str.format fills the *)
(* holes in order from its arguments and ignores the arguments left over.  *)

LATEX_PRINT_MAP ==
    [n \in 2..12 |->
        CASE n = 2 -> <<"", " + ", "">>
          [] n = 3 -> <<"", " - (", ")">>
          [] n = 4 -> <<"(", ")(", ")">>
          [] n = 5 -> <<"\\frac{ ", " }{ ", " }">>
          [] n = 6 -> <<"sin{ ", " }">>
          [] n = 7 -> <<"cos{ ", " }">>
          [] n = 8 -> <<"exp{ ", " }">>
          [] n = 9 -> <<"log{ ", " }">>
          [] n = 10 -> <<"(", ")^{ (", ") }">>
          [] n = 11 -> <<"|", "|">>
          [] n = 12 -> <<"\\sqrt{ ", " }">>]

CONSOLE_PRINT_MAP ==
    [n \in 2..12 |->
        CASE n = 2 -> <<"", " + ", "">>
          [] n = 3 -> <<"", " - (", ")">>
          [] n = 4 -> <<"(", ")(", ")">>
          [] n = 5 -> <<"(", ")/(", ") ">>
          [] n = 6 -> <<"sin(", ")">>
          [] n = 7 -> <<"cos(", ")">>
          [] n = 8 -> <<"exp(", ")">>
          [] n = 9 -> <<"log(", ")">>
          [] n = 10 -> <<"(", ")^(", ")">>
          [] n = 11 -> <<"|", "|">>
          [] n = 12 -> <<"sqrt(", ")">>]

\* template.format(args...): piece, argument, piece, argument, ..., piece.
RECURSIVE FormatFrom(_, _, _)
FormatFrom(template, args, k) ==
    IF k = Len(template) THEN template[k]
    ELSE template[k] \o args[k] \o FormatFrom(template, args, k + 1)

Format(template, args) == FormatFrom(template, args, 1)

\* "%d" % n and str(n) for an integer n.
RECURSIVE NatStr(_)
NatStr(n) ==
    LET digit == <<"0", "1", "2", "3", "4", "5", "6", "7", "8", "9">>
    IN IF n < 10 THEN digit[n + 1]
       ELSE NatStr(n \div 10) \o digit[(n % 10) + 1]

IntStr(n) == IF n < 0 THEN "-" \o NatStr(0 - n) ELSE NatStr(n)

\* list[p] in Python: a negative p counts from the end, an index outside
\* the list raises IndexError.  at is the zero-based position read.
PyIndex(list, p) ==
    IF 0 <= p /\ p < Len(list)
    THEN [error |-> FALSE, at |-> p, value |-> list[p + 1]]
    ELSE IF p < 0 /\ 0 - p <= Len(list)
         THEN [error |-> FALSE, at |-> Len(list) + p,
               value |-> list[Len(list) + p + 1]]
         ELSE [error |-> TRUE, at |-> p, value |-> ""]

\* AGraph._get_formatted_element_string: the text of row command_index, the
\* positions of str_list it looked up, and whether a lookup raised.
get_formatted_element_string(array, consts, command_index, str_list, format_dict) ==
    LET node == array[command_index + 1][1]
        param1 == array[command_index + 1][2]
        param2 == array[command_index + 1][3]
        first == PyIndex(str_list, param1)
        second == PyIndex(str_list, param2)
    IN IF node = 0
       THEN [text |-> "X_" \o IntStr(param1), lookups |-> {}, error |-> FALSE]
       ELSE IF node = 1
            THEN IF param1 = 0 - 1 \/ param1 >= Len(consts)
                 THEN [text |-> "?", lookups |-> {}, error |-> FALSE]
                 ELSE [text |-> IntStr(PyIndex(consts, param1).value),
                       lookups |-> {}, error |-> FALSE]
            ELSE IF first.error
                 THEN [text |-> "", lookups |-> {}, error |-> TRUE]
                 ELSE IF second.error
                      THEN [text |-> "", lookups |-> {first.at},
                            error |-> TRUE]
                      ELSE [text |-> Format(format_dict[node],
                                            <<first.value, second.value>>),
                            lookups |-> {first.at, second.at},
                            error |-> FALSE]

\* The loop of AGraph._get_formatted_string_using from row k (a TLA+ index)
\* on; acc holds str_list, the positions looked up so far and the error.
RECURSIVE FormatScan(_, _, _, _, _, _)
FormatScan(array, consts, util, format_dict, k, acc) ==
    IF acc.error \/ k > Len(util) THEN acc
    ELSE IF util[k]
         THEN LET e == get_formatted_element_string(
                           array, consts, k - 1, acc.str_list, format_dict)
              IN FormatScan(array, consts, util, format_dict, k + 1,
                            [str_list |-> Append(acc.str_list, e.text),
                             lookups |-> acc.lookups \cup e.lookups,
                             error |-> e.error])
         ELSE FormatScan(array, consts, util, format_dict, k + 1,
                         [acc EXCEPT !.str_list = Append(acc.str_list, "")])

\* The loop with the placeholder of a row that is not shown left out.
RECURSIVE FormatScanNoPlaceholder(_, _, _, _, _, _)
FormatScanNoPlaceholder(array, consts, util, format_dict, k, acc) ==
    IF acc.error \/ k > Len(util) THEN acc
    ELSE IF util[k]
         THEN LET e == get_formatted_element_string(
                           array, consts, k - 1, acc.str_list, format_dict)
              IN FormatScanNoPlaceholder(
                     array, consts, util, format_dict, k + 1,
                     [str_list |-> Append(acc.str_list, e.text),
                      lookups |-> acc.lookups \cup e.lookups,
                      error |-> e.error])
         ELSE FormatScanNoPlaceholder(array, consts, util, format_dict,
                                      k + 1, acc)

\* The result of a rendering: the returned text, the positions of str_list
\* that were looked up while it was built, and whether it raised.
Rendered(acc) ==
    IF acc.error \/ PyIndex(acc.str_list, 0 - 1).error
    THEN [text |-> "", lookups |-> acc.lookups, error |-> TRUE]
    ELSE [text |-> PyIndex(acc.str_list, 0 - 1).value,
          lookups |-> acc.lookups, error |-> FALSE]

\* Mutant: str_list.append(tmp_str) is made only for the rows shown.
get_formatted_string_no_placeholder(array, consts, format_dict) ==
    Rendered(FormatScanNoPlaceholder(
                 array, consts, get_utilized_commands(array), format_dict, 1,
                 [str_list |-> <<>>, lookups |-> {}, error |-> FALSE]))

\* AGraph._get_formatted_string_using.
get_formatted_string_using(array, consts, format_dict) ==
    Rendered(FormatScan(
                 array, consts, get_utilized_commands(array), format_dict, 1,
                 [str_list |-> <<>>, lookups |-> {}, error |-> FALSE]))

-----------------------------------------------------------------------------
(* Python float arithmetic of VarOr.py, at reduced precision.  A float has *)
(* MantBits significant bits and is written as an integer number of units  *)
(* of 2^-MantBits, so 1.0 is Scale and every multiple of the unit in [0,1] *)
(* is a float; np.random.rand draws on the same grid.  Sums and            *)
(* differences are computed exactly and rounded to the nearest float, ties *)
(* to the even significand, as IEEE-754 binary64 does with 53 bits.        *)

MantBits == 2

Scale == 2 ^ MantBits

RECURSIVE BitLen(_)
BitLen(n) == IF n = 0 THEN 0 ELSE 1 + BitLen(n \div 2)

RoundPos(x) ==
    LET e == IF BitLen(x) > MantBits THEN BitLen(x) - MantBits ELSE 0
        q == x \div (2 ^ e)
        r == x % (2 ^ e)
        half == (2 ^ e) \div 2
    IN IF e = 0 THEN x
       ELSE IF r > half \/ (r = half /\ q % 2 = 1)
            THEN (q + 1) * (2 ^ e)
            ELSE q * (2 ^ e)

Round(x) == IF x < 0 THEN 0 - RoundPos(0 - x) ELSE RoundPos(x)

FlAdd(a, b) == Round(a + b)

FlSub(a, b) == Round(a - b)

\* The values np.random.rand() returns: the grid points of [0, 1).
RandValues == 0..(Scale - 1)

\* Probabilities offered to the constructor: the floats of [0, 1], one
\* negative float and one float above 1.
ProbInputs == {0 - 1} \cup 0..Scale \cup {Scale + 2}

-----------------------------------------------------------------------------
(* Individuals of the VarOr model: a chromosome is a record held in a heap *)
(* of objects, so that two references to one object are told apart from    *)
(* two equal objects.  Addresses 1..Len(Population) hold the population,   *)
(* the following addresses the offspring of the running call, and the      *)
(* negative addresses the temporaries of one loop iteration.               *)

Population ==
    << [command_array |-> << <<0, 0, 0>> >>, constants |-> <<>>,
        fit_set |-> TRUE, fitness |-> <<1>>],
       [command_array |-> << <<1, 0, 0>> >>, constants |-> <<0>>,
        fit_set |-> FALSE, fitness |-> NoneVal] >>

PopulationRefs == [j \in 1..Len(Population) |-> j]

\* The individual a mutation or crossover operator builds anew.
NewIndividual(fs) ==
    [command_array |-> << <<1, 0 - 1, 0 - 1>> >>, constants |-> <<>>,
     fit_set |-> fs, fitness |-> IF fs THEN <<0>> ELSE NoneVal]

Put(h, a, ind) ==
    [x \in DOMAIN h \cup {a} |-> IF x = a THEN ind ELSE h[x]]

\* Chromosome.copy(): a deep copy, a new object with equal fields.
Copy(h, ref, a) == [heap |-> Put(h, a, h[ref]), ref |-> a]

\* Mutant: the parent itself is handed on, without .copy().
get_random_parent_no_copy(h, pop, idx, a) == [heap |-> h, ref |-> pop[idx + 1]]

\* VarOr._get_random_parent, for the index idx that randint drew.
get_random_parent(h, pop, idx, a) == Copy(h, pop[idx + 1], a)

\* The mutation operator: returns its argument, or a new individual.
MutationOutcomes == {"input", "new_fit_set", "new_fit_unset"}

Mutation(h, parent, outcome, a) ==
    IF outcome = "input" THEN [heap |-> h, ref |-> parent]
    ELSE [heap |-> Put(h, a, NewIndividual(outcome = "new_fit_set")), ref |-> a]

\* The crossover operator: its first child is one of its arguments or a new
\* individual (the second child is dropped by the caller).
CrossoverOutcomes == {"first", "second", "new_fit_set", "new_fit_unset"}

Crossover(h, parent_1, parent_2, outcome, a) ==
    IF outcome = "first" THEN [heap |-> h, ref |-> parent_1]
    ELSE IF outcome = "second" THEN [heap |-> h, ref |-> parent_2]
    ELSE [heap |-> Put(h, a, NewIndividual(outcome = "new_fit_set")), ref |-> a]

\* Mutant: the child is appended with the fitness flag it came with.
append_keeping_fit_set(h, child, off) ==
    [heap |-> h, offspring |-> Append(off, child)]

\* VarOr._append_new_individual_to_offspring.
append_new_individual_to_offspring(h, child, off) ==
    [heap |-> [h EXCEPT ![child].fit_set = FALSE],
     offspring |-> Append(off, child)]

\* End of a loop iteration: the temporaries go out of scope.  A temporary
\* that was appended stays alive; it is given the address of its slot.
EndIteration(r, slot) ==
    LET h == r.heap
        off == r.offspring
        child == off[Len(off)]
        keep == {x \in DOMAIN h : x > 0}
    IN IF child < 0
       THEN [heap |-> [x \in keep \cup {slot} |->
                          IF x = slot THEN h[child] ELSE h[x]],
             offspring |-> [off EXCEPT ![Len(off)] = slot]]
       ELSE [heap |-> [x \in keep |-> h[x]], offspring |-> off]

-----------------------------------------------------------------------------
(* State.                                                                  *)

VARIABLES
    \* An AGraph: its fields.
    command_array, constants, fit_set, fitness,
    \* The AGraph method whose return value the caller holds, and that value:
    \* "none" and <<>> once a method returning None has run.
    last_call, ret,
    \* TRUE when the last two calls were both
    \* get_number_local_optimization_params.
    repeat,
    \* <<L>> when get_number_local_optimization_params returned L and the
    \* command array has not been assigned or edited since; else <<>>.
    opt_count,
    \* The zero-based positions of str_list that the last rendering call
    \* looked up ({} after any other call).
    lookups,
    \* A VarOr: where its construction and its call stand, the arguments the
    \* constructor was given and the check that rejected them.
    stage, ctor_args, ctor_error,
    \* The VarOr's probabilities (<<>> while no VarOr exists) and its
    \* two flag arrays.
    varor, crossover_offspring, mutation_offspring,
    \* __call__: the objects alive, the population argument, the locals
    \* offspring, number_offspring, i and choice, and the returned list.
    heap, population, offspring, number_offspring, i, choice, result,
    \* Per offspring slot, the _do_* method that ran for it.
    paths,
    \* TRUE when an earlier call had returned before the current one began.
    recalled

agraph_vars ==
    <<command_array, constants, fit_set, fitness, last_call, ret, repeat,
      opt_count, lookups>>

varor_vars ==
    <<stage, ctor_args, ctor_error, varor, crossover_offspring,
      mutation_offspring, heap, population, offspring, number_offspring, i,
      choice, result, paths, recalled>>

vars == <<agraph_vars, varor_vars>>

\* AGraph.__init__: an empty command array, no constants, no fitness.
AGraphInit ==
    /\ command_array = <<>>
    /\ constants = <<>>
    /\ fit_set = FALSE
    /\ fitness = NoneVal
    /\ last_call = "none"
    /\ ret = NoneVal
    /\ repeat = FALSE
    /\ opt_count = NoneVal
    /\ lookups = {}

\* Before VarOr(...) is called: a population exists, no generator does.
VarOrInit ==
    /\ stage = "new"
    /\ ctor_args = NoneVal
    /\ ctor_error = "none"
    /\ varor = NoneVal
    /\ crossover_offspring = <<>>
    /\ mutation_offspring = <<>>
    /\ heap = Population
    /\ population = PopulationRefs
    /\ offspring = <<>>
    /\ number_offspring = 0
    /\ i = 0
    /\ choice = NoneVal
    /\ result = NoneVal
    /\ paths = <<>>
    /\ recalled = FALSE

Init == AGraphInit /\ VarOrInit

-----------------------------------------------------------------------------
(* The command arrays offered to an AGraph.  Rows use one opcode of each   *)
(* kind the code tells apart: 0 (load variable), 1 (load constant),        *)
(* 6 (arity 1) and 2 (arity 2).  Operator rows name strictly earlier rows. *)

TerminalRows ==
    {<<0, 0, 0>>, <<1, 0 - 1, 0 - 1>>, <<1, 0, 0>>, <<1, 1, 1>>}

OperatorRows(k) == {<<op, p, q>> : op \in {2, 6}, p \in 0..(k - 1), q \in 0..(k - 1)}

\* The rows that may stand at zero-based index k.
Rows(k) == TerminalRows \cup OperatorRows(k)

\* The arrays assigned whole: n unbound constant-loads.
AssignedArrays == {[k \in 1..n |-> <<1, 0 - 1, 0 - 1>>] : n \in 1..MaxLen}

ParamLists == {[k \in 1..n |-> 0] : n \in 0..MaxConst}

FitnessValues == {1}

-----------------------------------------------------------------------------
(* AGraph operations.                                                      *)

\* command_array setter.
SetCommandArray(array) ==
    /\ command_array' = array
    /\ fitness' = NoneVal
    /\ fit_set' = FALSE
    /\ last_call' = "none"
    /\ ret' = NoneVal
    /\ repeat' = FALSE
    /\ opt_count' = NoneVal
    /\ UNCHANGED constants
    /\ lookups' = {}
    /\ UNCHANGED varor_vars

\* The caller writes row k of the array in place, then calls
\* notify_command_array_modification.
NotifyCommandArrayModification(k, row) ==
    /\ k \in 1..Len(command_array)
    /\ row \in Rows(k - 1)
    /\ command_array' = [command_array EXCEPT ![k] = row]
    /\ fitness' = NoneVal
    /\ fit_set' = FALSE
    /\ last_call' = "none"
    /\ ret' = NoneVal
    /\ repeat' = FALSE
    /\ opt_count' = NoneVal
    /\ UNCHANGED constants
    /\ lookups' = {}
    /\ UNCHANGED varor_vars

NeedsLocalOptimization ==
    /\ ret' = <<needs_local_optimization(command_array, constants)>>
    /\ last_call' = "needs_local_optimization"
    /\ repeat' = FALSE
    /\ UNCHANGED <<command_array, constants, fit_set, fitness, opt_count>>
    /\ lookups' = {}
    /\ UNCHANGED varor_vars

GetNumberLocalOptimizationParams ==
    LET r == get_number_local_optimization_params(command_array)
    IN /\ command_array' = r.array
       /\ ret' = <<r.const_num>>
       /\ last_call' = "get_number_local_optimization_params"
       /\ repeat' = (last_call = "get_number_local_optimization_params")
       /\ opt_count' = <<r.const_num>>
       /\ UNCHANGED <<constants, fit_set, fitness>>
       /\ lookups' = {}
       /\ UNCHANGED varor_vars

SetLocalOptimizationParams(params) ==
    /\ constants' = params
    /\ last_call' = "none"
    /\ ret' = NoneVal
    /\ repeat' = FALSE
    /\ UNCHANGED <<command_array, fit_set, fitness, opt_count>>
    /\ lookups' = {}
    /\ UNCHANGED varor_vars

\* Chromosome.fitness setter: an evaluation stores its result.
SetFitness(value) ==
    /\ Len(command_array) > 0
    /\ fitness' = <<value>>
    /\ fit_set' = TRUE
    /\ last_call' = "none"
    /\ ret' = NoneVal
    /\ repeat' = FALSE
    /\ UNCHANGED <<command_array, constants, opt_count>>
    /\ lookups' = {}
    /\ UNCHANGED varor_vars

\* get_latex_string / get_console_string: the text is returned; a raised
\* IndexError is recorded in last_call instead.
GetFormattedString(name, format_dict) ==
    LET r == get_formatted_string_using(command_array, constants, format_dict)
    IN /\ last_call' = IF r.error THEN "IndexError" ELSE name
       /\ ret' = IF r.error THEN NoneVal ELSE <<r.text>>
       /\ lookups' = r.lookups
       /\ repeat' = FALSE
       /\ UNCHANGED <<command_array, constants, fit_set, fitness, opt_count>>
       /\ UNCHANGED varor_vars

GetLatexString == GetFormattedString("get_latex_string", LATEX_PRINT_MAP)

GetConsoleString == GetFormattedString("get_console_string", CONSOLE_PRINT_MAP)

AGraphNext ==
    \/ \E array \in AssignedArrays : SetCommandArray(array)
    \/ \E k \in 1..MaxLen : \E row \in Rows(k - 1) :
           NotifyCommandArrayModification(k, row)
    \/ NeedsLocalOptimization
    \/ GetNumberLocalOptimizationParams
    \/ \E params \in ParamLists : SetLocalOptimizationParams(params)
    \/ \E value \in FitnessValues : SetFitness(value)
    \/ GetLatexString
    \/ GetConsoleString

Spec == Init /\ [][AGraphNext]_vars

-----------------------------------------------------------------------------
(* VarOr operations.                                                       *)

\* Largest number_offspring asked of a call.
MaxOffspring == 2

\* argument_validation of __init__: {">=": 0, "<=": 1} on a probability.
ProbabilityInRange(p) == p >= 0 /\ p <= Scale

\* VarOr.__init__ with its decorator: the range checks, the sum check, the
\* assignments.
Construct(pc, pm) ==
    /\ stage = "new"
    /\ ctor_args' = <<pc, pm>>
    /\ IF ~(ProbabilityInRange(pc) /\ ProbabilityInRange(pm))
       THEN /\ stage' = "failed"
            /\ ctor_error' = "range"
            /\ varor' = NoneVal
       ELSE IF FlAdd(pc, pm) > Scale
            THEN /\ stage' = "failed"
                 /\ ctor_error' = "sum"
                 /\ varor' = NoneVal
            ELSE /\ stage' = "ready"
                 /\ ctor_error' = "none"
                 /\ varor' = <<[crossover_probability |-> pc,
                                mutation_probability |-> pm,
                                replication_probability |->
                                    FlSub(FlSub(Scale, pc), pm)]>>
    /\ UNCHANGED <<crossover_offspring, mutation_offspring, heap, population,
                   offspring, number_offspring, i, choice, result, paths,
                   recalled>>
    /\ UNCHANGED agraph_vars

\* np.zeros(number_offspring, bool).
Zeros(n) == [k \in 1..n |-> FALSE]

\* Mutant: the loop runs once more than range(number_offspring).
InRangeInclusive(k, n) == k <= n

\* i in range(number_offspring).
InRange(k, n) == k < n

\* Mutant: the first test is strict.
ChoosesMutationStrict(u, pm) == u < pm

\* choice <= self._mutation_probability.
ChoosesMutation(u, pm) == u <= pm

\* choice <= (self._mutation_probability + self._crossover_probability).
WithinCrossover(u, pm, pc) == u <= FlAdd(pm, pc)

\* The address the object appended in iteration k is known by afterwards.
SlotAddress(k) == Len(Population) + k + 1

\* The indices np.random.randint(len(population)) returns.
RandIndices == 0..(Len(population) - 1)

\* __call__ up to the loop: the empty list and the two fresh flag arrays.
Call(n) ==
    /\ stage \in {"ready", "returned"}
    /\ offspring' = <<>>
    /\ crossover_offspring' = Zeros(n)
    /\ mutation_offspring' = Zeros(n)
    /\ number_offspring' = n
    /\ i' = 0
    /\ choice' = NoneVal
    /\ result' = NoneVal
    /\ paths' = <<>>
    /\ recalled' = (stage = "returned")
    /\ heap' = [x \in {population[j] : j \in 1..Len(population)} |-> heap[x]]
    /\ stage' = "running"
    /\ UNCHANGED <<ctor_args, ctor_error, varor, population>>
    /\ UNCHANGED agraph_vars

\* One iteration whose draw u selects _do_mutation.
DoMutation(u, idx, outcome) ==
    /\ stage = "running"
    /\ InRange(i, number_offspring)
    /\ ChoosesMutation(u, varor[1].mutation_probability)
    /\ LET parent == get_random_parent(heap, population, idx, 0 - 1)
           mutant == Mutation(parent.heap, parent.ref, outcome, 0 - 2)
           r == EndIteration(
                    append_new_individual_to_offspring(
                        mutant.heap, mutant.ref, offspring),
                    SlotAddress(i))
       IN /\ heap' = r.heap
          /\ offspring' = r.offspring
    /\ mutation_offspring' = [mutation_offspring EXCEPT ![i + 1] = TRUE]
    /\ choice' = <<u>>
    /\ paths' = Append(paths, "mutation")
    /\ i' = i + 1
    /\ UNCHANGED <<stage, ctor_args, ctor_error, varor, crossover_offspring,
                   population, number_offspring, result, recalled>>
    /\ UNCHANGED agraph_vars

\* One iteration whose draw u selects _do_crossover.
DoCrossover(u, idx_1, idx_2, outcome) ==
    /\ stage = "running"
    /\ InRange(i, number_offspring)
    /\ ~ChoosesMutation(u, varor[1].mutation_probability)
    /\ WithinCrossover(u, varor[1].mutation_probability,
                       varor[1].crossover_probability)
    /\ LET parent_1 == get_random_parent(heap, population, idx_1, 0 - 1)
           parent_2 == get_random_parent(parent_1.heap, population, idx_2,
                                         0 - 2)
           child_1 == Crossover(parent_2.heap, parent_1.ref, parent_2.ref,
                                outcome, 0 - 3)
           r == EndIteration(
                    append_new_individual_to_offspring(
                        child_1.heap, child_1.ref, offspring),
                    SlotAddress(i))
       IN /\ heap' = r.heap
          /\ offspring' = r.offspring
    /\ crossover_offspring' = [crossover_offspring EXCEPT ![i + 1] = TRUE]
    /\ choice' = <<u>>
    /\ paths' = Append(paths, "crossover")
    /\ i' = i + 1
    /\ UNCHANGED <<stage, ctor_args, ctor_error, varor, mutation_offspring,
                   population, number_offspring, result, recalled>>
    /\ UNCHANGED agraph_vars

\* One iteration whose draw u selects _do_replication.
DoReplication(u, idx) ==
    /\ stage = "running"
    /\ InRange(i, number_offspring)
    /\ ~ChoosesMutation(u, varor[1].mutation_probability)
    /\ ~WithinCrossover(u, varor[1].mutation_probability,
                        varor[1].crossover_probability)
    /\ LET child == get_random_parent(heap, population, idx, 0 - 1)
           r == EndIteration(
                    append_new_individual_to_offspring(
                        child.heap, child.ref, offspring),
                    SlotAddress(i))
       IN /\ heap' = r.heap
          /\ offspring' = r.offspring
    /\ choice' = <<u>>
    /\ paths' = Append(paths, "replication")
    /\ i' = i + 1
    /\ UNCHANGED <<stage, ctor_args, ctor_error, varor, crossover_offspring,
                   mutation_offspring, population, number_offspring, result,
                   recalled>>
    /\ UNCHANGED agraph_vars

\* The loop is over: return offspring.
Return ==
    /\ stage = "running"
    /\ ~InRange(i, number_offspring)
    /\ stage' = "returned"
    /\ result' = <<offspring>>
    /\ UNCHANGED <<ctor_args, ctor_error, varor, crossover_offspring,
                   mutation_offspring, heap, population, offspring,
                   number_offspring, i, choice, paths, recalled>>
    /\ UNCHANGED agraph_vars

VarOrNext ==
    \/ \E pc \in ProbInputs : \E pm \in ProbInputs : Construct(pc, pm)
    \/ \E n \in 0..MaxOffspring : Call(n)
    \/ \E u \in RandValues : \E idx \in RandIndices :
           \E outcome \in MutationOutcomes : DoMutation(u, idx, outcome)
    \/ \E u \in RandValues : \E idx_1 \in RandIndices :
           \E idx_2 \in RandIndices : \E outcome \in CrossoverOutcomes :
               DoCrossover(u, idx_1, idx_2, outcome)
    \/ \E u \in RandValues : \E idx \in RandIndices : DoReplication(u, idx)
    \/ Return

SpecVarOr == Init /\ [][VarOrNext]_vars

-----------------------------------------------------------------------------
(* Properties of VarOr, checked under SpecVarOr.                           *)

\* The probabilities of the generator a call runs on.
Pm == varor[1].mutation_probability

Pc == varor[1].crossover_probability

\* C1: in every iteration of __call__, with u the value drawn for it, the
\* slot is produced by _do_mutation iff u <= pm, by _do_crossover iff
\* pm < u <= pm + pc (the sum as the code computes it) and by
\* _do_replication otherwise; mutation_offspring[k] is true iff slot k took
\* the mutation path, crossover_offspring[k] iff it took the crossover path,
\* and no slot has both flags.
C1_PartitionAndFlags ==
    (stage \in {"running", "returned"} /\ choice # NoneVal) =>
        LET u == choice[1]
            last == paths[Len(paths)]
        IN /\ Len(paths) = i
           /\ (last = "mutation") <=> (u <= Pm)
           /\ (last = "crossover") <=> (Pm < u /\ u <= FlAdd(Pm, Pc))
           /\ (last = "replication") <=> (Pm < u /\ FlAdd(Pm, Pc) < u)
           /\ \A k \in 1..Len(paths) :
                  /\ mutation_offspring[k] <=> (paths[k] = "mutation")
                  /\ crossover_offspring[k] <=> (paths[k] = "crossover")
                  /\ ~(mutation_offspring[k] /\ crossover_offspring[k])

\* C1 witness: a generator with pm = 0.25 and pc = 0.5 has returned two
\* offspring; the last draw was the boundary value u = pm + pc and took the
\* crossover path, the slot before it was a mutation.
C1_Witness ==
    /\ stage = "returned"
    /\ varor # NoneVal
    /\ Pm = 1
    /\ Pc = 2
    /\ choice = <<3>>
    /\ paths = <<"mutation", "crossover">>
    /\ mutation_offspring = <<TRUE, FALSE>>
    /\ crossover_offspring = <<FALSE, TRUE>>

\* C2: every individual in the offspring list, while it is built and when it
\* is returned, has fit_set false, whichever path produced it.
C2_OffspringFitnessUnset ==
    /\ \A k \in 1..Len(offspring) : heap[offspring[k]].fit_set = FALSE
    /\ result # NoneVal =>
           \A k \in 1..Len(result[1]) : heap[result[1][k]].fit_set = FALSE

\* C2 witness: a returned list whose first member replicates the population
\* member that has its fitness set, and whose second member is an individual
\* the mutation operator returned with its fitness set.
C2_Witness ==
    /\ stage = "returned"
    /\ paths = <<"replication", "mutation">>
    /\ Population[1].fit_set
    /\ heap[result[1][1]].command_array = Population[1].command_array
    /\ heap[result[1][1]].fitness = Population[1].fitness
    /\ heap[result[1][2]] = [NewIndividual(TRUE) EXCEPT !.fit_set = FALSE]

\* C3: a completed call returns exactly number_offspring individuals, both
\* flag arrays have that length, and entry k of each describes the path that
\* produced offspring k of this call; a call for 0 offspring returns the
\* empty list and leaves empty flag arrays, also after an earlier call.
C3_LengthsMatch ==
    stage = "returned" =>
        /\ Len(result[1]) = number_offspring
        /\ Len(crossover_offspring) = number_offspring
        /\ Len(mutation_offspring) = number_offspring
        /\ Len(paths) = number_offspring
        /\ \A k \in 1..number_offspring :
               /\ result[1][k] = SlotAddress(k - 1)
               /\ mutation_offspring[k] <=> (paths[k] = "mutation")
               /\ crossover_offspring[k] <=> (paths[k] = "crossover")
        /\ number_offspring = 0 =>
               /\ result[1] = <<>>
               /\ crossover_offspring = <<>>
               /\ mutation_offspring = <<>>

\* C3 witness: a call for 0 offspring has returned after an earlier call of
\* the same generator had returned.
C3_Witness ==
    /\ stage = "returned"
    /\ recalled
    /\ number_offspring = 0
    /\ result = << <<>> >>
    /\ mutation_offspring = <<>>

\* C4 (as claimed): construction fails, leaving no generator, whenever a
\* probability is outside [0,1] or pc + pm > 1, the range check coming first;
\* it succeeds otherwise, with a replication probability that is not
\* negative.
C4_ConstructionValidated ==
    ctor_args # NoneVal =>
        LET pc == ctor_args[1]
            pm == ctor_args[2]
            inrange == 0 <= pc /\ pc <= Scale /\ 0 <= pm /\ pm <= Scale
        IN /\ (~inrange \/ pc + pm > Scale) =>
                  (stage = "failed" /\ varor = NoneVal)
           /\ ~inrange => ctor_error = "range"
           /\ (inrange /\ pc + pm <= Scale) =>
                  /\ varor # NoneVal
                  /\ varor[1].crossover_probability = pc
                  /\ varor[1].mutation_probability = pm
                  /\ varor[1].replication_probability >= 0

\* C10: the population is never changed by a call: every member keeps its
\* command array, constants and fitness flag, and the offspring are objects
\* of their own, none a member of the population, no two the same.
C10_PopulationUntouched ==
    /\ population = PopulationRefs
    /\ \A j \in 1..Len(Population) : heap[population[j]] = Population[j]
    /\ \A k \in 1..Len(offspring) :
           /\ \A j \in 1..Len(population) : offspring[k] # population[j]
           /\ \A m \in 1..Len(offspring) :
                  (offspring[k] = offspring[m]) => (k = m)

\* C10 witness: two offspring have been returned, a crossover whose two
\* parents were the same population member (the one with its fitness set)
\* and a replication of that member.
C10_Witness ==
    /\ stage = "returned"
    /\ paths = <<"crossover", "replication">>
    /\ heap[offspring[1]].command_array = Population[1].command_array
    /\ heap[offspring[2]].command_array = Population[1].command_array
    /\ heap[offspring[1]].fit_set = FALSE
    /\ heap[population[1]].fit_set = TRUE

-----------------------------------------------------------------------------
(* Properties of AGraph, checked under Spec.                               *)

\* The utilized constant-load rows of an array.
UtilizedConstants(array) ==
    {k \in 1..Len(array) :
         get_utilized_commands(array)[k] /\ array[k][1] = 1}

\* The zero-based rank of row k among the rows of a set, in index order.
RankIn(rows, k) == Cardinality({j \in rows : j < k})

\* C5: get_number_local_optimization_params returns the number of utilized
\* constant-load rows; after it each of them is (1, r, r) with r its rank
\* among them in index order, every other row is as it was, and the array
\* has kept its length.
C5_RenumberingCounts ==
    [][last_call' = "get_number_local_optimization_params" =>
           LET found == UtilizedConstants(command_array)
           IN /\ ret' = <<Cardinality(found)>>
              /\ Len(command_array') = Len(command_array)
              /\ UtilizedConstants(command_array') = found
              /\ \A k \in 1..Len(command_array) :
                     command_array'[k] =
                         IF k \in found
                         THEN <<1, RankIn(found, k), RankIn(found, k)>>
                         ELSE command_array[k]]_vars

\* C5 witness: the call has returned 2 for an array whose two constant-loads
\* feed an addition; they now carry the slots 0 and 1.
C5_Witness ==
    /\ last_call = "get_number_local_optimization_params"
    /\ ret = <<2>>
    /\ command_array = << <<1, 0, 0>>, <<1, 1, 1>>, <<2, 1, 0>> >>

\* C6: a second get_number_local_optimization_params right after a first
\* returns the same count and leaves the command array as the first call
\* left it; no call changes the liveness vector.
C6_Idempotent ==
    [][/\ (/\ last_call = "get_number_local_optimization_params"
           /\ last_call' = "get_number_local_optimization_params") =>
              (ret' = ret /\ command_array' = command_array)
       /\ last_call' = "get_number_local_optimization_params" =>
              get_utilized_commands(command_array') =
                  get_utilized_commands(command_array)]_vars

\* C6 witness: two calls in a row have been made on an array with two
\* utilized constant-loads.
C6_Witness ==
    /\ repeat
    /\ last_call = "get_number_local_optimization_params"
    /\ ret = <<2>>
    /\ Len(command_array) = 3

\* C7 (as claimed): every step that changes the command array leaves the
\* fitness unset: fit_set false and the stored fitness None.
C7_FitnessInvalidated ==
    [][command_array' # command_array =>
           (fit_set' = FALSE /\ fitness' = NoneVal)]_vars

\* The arity the opcode table gives a node: 0 for the two loads, 2 for
\* + - * / and power, 1 for the rest.
TableArity(node) ==
    IF node \in {0, 1} THEN 0 ELSE IF node \in {2, 3, 4, 5, 10} THEN 2 ELSE 1

\* The rows (as TLA+ indices) whose results row j of an array consumes.
Consumed(array, j) ==
    IF TableArity(array[j][1]) = 0 THEN {}
    ELSE IF TableArity(array[j][1]) = 1 THEN {array[j][2] + 1}
    ELSE {array[j][2] + 1, array[j][3] + 1}

\* The acyclicity invariant: operator rows consume strictly earlier rows.
Acyclic(array) ==
    \A j \in 1..Len(array) : \A k \in Consumed(array, j) : 1 <= k /\ k < j

\* C8: for an array of N >= 1 rows the liveness vector has length N, marks
\* the last row, and marks an earlier row iff a later marked row consumes
\* it.
C8_Liveness ==
    (Len(command_array) >= 1 /\ Acyclic(command_array)) =>
        LET N == Len(command_array)
            util == get_utilized_commands(command_array)
        IN /\ Len(util) = N
           /\ util[N]
           /\ \A k \in 1..(N - 1) :
                  util[k] <=>
                      \E j \in (k + 1)..N :
                          util[j] /\ k \in Consumed(command_array, j)

\* C8 witness: a sine row whose unused second parameter names row 0; row 0
\* is not utilized, the row the sine consumes is.
C8_Witness ==
    /\ command_array = << <<1, 0 - 1, 0 - 1>>, <<0, 0, 0>>, <<6, 1, 0>> >>
    /\ get_utilized_commands(command_array) = <<FALSE, TRUE, TRUE>>

\* C9: needs_local_optimization returns true iff a utilized row is a
\* constant-load whose param1 is -1 or at least the length of the constant
\* list.  When get_number_local_optimization_params has returned L and the
\* array is unchanged since, it returns false if the constant list has L
\* values and true if it has fewer and L > 0.
C9_NeedsOptimization ==
    last_call = "needs_local_optimization" =>
        /\ ret = <<\E k \in UtilizedConstants(command_array) :
                       \/ command_array[k][2] = 0 - 1
                       \/ command_array[k][2] >= Len(constants)>>
        /\ opt_count # NoneVal =>
               /\ Len(constants) = opt_count[1] => ret = <<FALSE>>
               /\ (Len(constants) < opt_count[1] /\ opt_count[1] > 0) =>
                      ret = <<TRUE>>

\* C9 witness: get_number_local_optimization_params has returned 2, the
\* constant list was then given one value only, and
\* needs_local_optimization has returned true.
C9_Witness ==
    /\ last_call = "needs_local_optimization"
    /\ opt_count = <<2>>
    /\ Len(constants) = 1
    /\ ret = <<TRUE>>

\* The rendering calls, and the format table each one uses.
RenderCalls == {"get_latex_string", "get_console_string"}

FormatDictOf(call) ==
    IF call = "get_latex_string" THEN LATEX_PRINT_MAP ELSE CONSOLE_PRINT_MAP

\* The text of row k (a TLA+ index) read as an expression tree: a terminal
\* is its literal, an operator its template around the texts of the rows it
\* consumes.
RECURSIVE ExprText(_, _, _, _)
ExprText(array, consts, format_dict, k) ==
    LET node == array[k][1]
        param1 == array[k][2]
        param2 == array[k][3]
        pieces == format_dict[node]
    IN IF node = 0 THEN "X_" \o IntStr(param1)
       ELSE IF node = 1
            THEN IF param1 = 0 - 1 \/ param1 >= Len(consts) THEN "?"
                 ELSE IntStr(consts[param1 + 1])
            ELSE IF TableArity(node) = 1
                 THEN pieces[1]
                      \o ExprText(array, consts, format_dict, param1 + 1)
                      \o pieces[2]
                 ELSE pieces[1]
                      \o ExprText(array, consts, format_dict, param1 + 1)
                      \o pieces[2]
                      \o ExprText(array, consts, format_dict, param2 + 1)
                      \o pieces[3]

\* The utilized operator rows of an array.
UtilizedOperators(array) ==
    {j \in 1..Len(array) :
         get_utilized_commands(array)[j] /\ TableArity(array[j][1]) > 0}

\* C11 (as claimed): rendering a program of at least one row looks up only
\* list entries of utilized rows, so the empty placeholder of a row that is
\* not utilized is never read; no lookup fails and the returned text is the
\* string built for the final row.
C11_PlaceholderNeverRead ==
    Len(command_array) >= 1 =>
        /\ last_call # "IndexError"
        /\ last_call \in RenderCalls =>
               /\ \A p \in lookups :
                      get_utilized_commands(command_array)[p + 1]
               /\ ret = <<ExprText(command_array, constants,
                                   FormatDictOf(last_call),
                                   Len(command_array))>>

\* C11 (amended): rendering a program of at least one row never raises; the
\* returned text is the text of the final row, built from the texts of the
\* rows that utilized operators consume, all of them utilized, so no
\* placeholder is substituted.  Every lookup is made by a utilized operator
\* row at a strictly smaller position, for its param1 or its param2; the
\* entries looked up for rows that are not utilized are those named by the
\* unused param2 of a utilized arity-1 operator.
C11_PlaceholderNeverUsed ==
    Len(command_array) >= 1 =>
        /\ last_call # "IndexError"
        /\ last_call \in RenderCalls =>
               LET util == get_utilized_commands(command_array)
                   ops == UtilizedOperators(command_array)
               IN /\ ret = <<ExprText(command_array, constants,
                                      FormatDictOf(last_call),
                                      Len(command_array))>>
                  /\ lookups = {command_array[j][2] : j \in ops}
                                   \cup {command_array[j][3] : j \in ops}
                  /\ \A j \in ops :
                         /\ command_array[j][2] + 1 < j
                         /\ command_array[j][3] + 1 < j
                         /\ \A k \in Consumed(command_array, j) : util[k]
                  /\ \A p \in lookups :
                         ~util[p + 1] =>
                             \E j \in ops :
                                 /\ TableArity(command_array[j][1]) = 1
                                 /\ command_array[j][3] = p

\* C11 witness: get_console_string has returned sin(X_0) for a sine of row 1
\* whose unused second parameter names row 0, a constant-load that is not
\* utilized; both list entries were looked up.
C11_Witness ==
    /\ last_call = "get_console_string"
    /\ command_array = << <<1, 0 - 1, 0 - 1>>, <<0, 0, 0>>, <<6, 1, 0>> >>
    /\ ret = <<"sin(X_0)">>
    /\ lookups = {0, 1}

====
